---- MODULE Spec2Model ----
(***************************************************************************)
(* State-machine model of src/app/lib/pdf2img.ts: the module-level PDF.js  *)
(* loader (loadPdfJs) and the two conversion entry points                  *)
(* (convertPdfToImage, convertPdfToImageSimple with performConversion).    *)
(*                                                                         *)
(* One action is one run-to-suspension of the JavaScript event loop: the   *)
(* synchronous code from a call, or from the settling of an awaited        *)
(* promise / the firing of an event handler, up to the next await.  The    *)
(* outcomes of the collaborators (script load, module import, engine       *)
(* promises, canvas) are chosen by the environment.                        *)
(*                                                                         *)
(* Environment assumptions: a browser (typeof window !== 'undefined'),     *)
(* and document.createElement / appendChild do not throw.                  *)
(*                                                                         *)
(* Absent values: an engine reference is the string "none" when absent;    *)
(* an optional value (result, file, error, loadPromise) is a sequence of   *)
(* length 0 (absent) or 1 (present).                                       *)
(***************************************************************************)
EXTENDS Naturals, Sequences, FiniteSets, TLC

\* Number of conversion calls issued in one page session.
NCalls == 2

Calls == 1..NCalls

(***************************************************************************)
(* URLs.  A URL is the sequence of the parts of its template literal, so   *)
(* that the pinned version stays visible: <<prefix, version, suffix>>.     *)
(***************************************************************************)
PinnedVersion == "3.11.174"

JsDelivrScript(version) ==
    <<"https://cdn.jsdelivr.net/npm/pdfjs-dist@", version, "/build/pdf.min.js">>

JsDelivrWorker(version) ==
    <<"https://cdn.jsdelivr.net/npm/pdfjs-dist@", version, "/build/pdf.worker.min.js">>

CdnjsScript ==
    <<"https://cdnjs.cloudflare.com/ajax/libs/pdf.js/", "3.11.174", "/pdf.min.js">>

CdnjsWorker ==
    <<"https://cdnjs.cloudflare.com/ajax/libs/pdf.js/", "3.11.174", "/pdf.worker.min.js">>

UrlVersion(url) == url[2]

\* Versions the installed pdfjs-dist module may have (import of build/pdf.mjs).
ModuleVersions == {"3.11.174", "4.10.38"}

(***************************************************************************)
(* Inputs.  kind is "null", "object" (a value that is no File) or "file".  *)
(* A name is a sequence of characters.                                     *)
(***************************************************************************)
NullInput   == [kind |-> "null", type |-> "", name |-> <<>>]
PlainObject == [kind |-> "object", type |-> "application/pdf",
                name |-> <<"a", ".", "p", "d", "f">>]
TextFile    == [kind |-> "file", type |-> "text/plain",
                name |-> <<"a", ".", "t", "x", "t">>]
TypedPdf    == [kind |-> "file", type |-> "application/pdf",
                name |-> <<"s", "c", "a", "n">>]
NamedPdf    == [kind |-> "file", type |-> "",
                name |-> <<"r", ".", "P", "D", "F">>]

Inputs == {NullInput, PlainObject, TextFile, TypedPdf, NamedPdf}

\* File names for the naming rule: every concatenation of at most MaxTokens
\* of these pieces ("r.PDF", ".pdf.pdf", "r.pdf.t", "pdf", "", ...).
MaxTokens == 3

Tokens ==
    {<<"r">>, <<".">>, <<".", "t">>, <<"p", "d", "f">>,
     <<".", "p", "d", "f">>, <<".", "P", "D", "F">>, <<".", "P", "d", "f">>}

RECURSIVE NamesUpTo(_)
NamesUpTo(k) ==
    IF k = 0
    THEN {<<>>}
    ELSE LET shorter == NamesUpTo(k - 1) IN
         shorter \cup {n \o t : n \in shorter, t \in Tokens}

\* File objects of type application/pdf carrying those names.
NameFiles ==
    {[kind |-> "file", type |-> "application/pdf", name |-> n] :
        n \in NamesUpTo(MaxTokens)}

\* String.prototype.toLowerCase on one character of the names above.
LowerChar(ch) ==
    CASE ch = "P" -> "p"
      [] ch = "D" -> "d"
      [] ch = "F" -> "f"
      [] ch = "R" -> "r"
      [] OTHER -> ch

ToLowerCase(s) == [i \in 1..Len(s) |-> LowerChar(s[i])]

EndsWith(s, suffix) ==
    /\ Len(s) >= Len(suffix)
    /\ SubSeq(s, Len(s) - Len(suffix) + 1, Len(s)) = suffix

DotPdf == <<".", "p", "d", "f">>
DotPng == <<".", "p", "n", "g">>

\* file instanceof File (a null input fails the !file test before it).
IsFileInstance(f) == f.kind = "file"

\* Variant of IsPdf that compares the suffix without lower-casing the name.
IsPdfCaseSensitive(f) == f.type = "application/pdf" \/ EndsWith(f.name, DotPdf)

\* file.type === 'application/pdf' || file.name.toLowerCase().endsWith('.pdf')
IsPdf(f) == f.type = "application/pdf" \/ EndsWith(ToLowerCase(f.name), DotPdf)

\* Variant of StripPdfSuffix for the pattern /\.pdf$/ without the i flag.
StripPdfSuffixCaseSensitive(name) ==
    IF EndsWith(name, DotPdf)
    THEN SubSeq(name, 1, Len(name) - Len(DotPdf))
    ELSE name

\* file.name.replace(/\.pdf$/i, "")
StripPdfSuffix(name) ==
    IF EndsWith(ToLowerCase(name), DotPdf)
    THEN SubSeq(name, 1, Len(name) - Len(DotPdf))
    ELSE name

\* `${originalName}.png`
OutputName(name) == StripPdfSuffix(name) \o DotPng

\* file.arrayBuffer is callable only on a Blob/File; on null or a plain
\* object the call throws a TypeError.
HasArrayBuffer(f) == f.kind = "file"

(***************************************************************************)
(* Faults and results.                                                     *)
(***************************************************************************)
Fault(stage) == [name |-> "Error", message |-> stage \o " failed"]
TypeErrorFault == [name |-> "TypeError", message |-> "not an object"]

\* `${err}` / String(err) of an Error
ErrString(e) == e.name \o ": " \o e.message

\* A failure literal { imageUrl: "", file: null, error }.
Failure(msg) == [imageUrl |-> "", file |-> <<>>, error |-> <<msg>>]

\* The success literal { imageUrl, file: imageFile } (error absent).
Success(url, f) == [imageUrl |-> url, file |-> <<f>>, error |-> <<>>]

\* URL.createObjectURL(blob): a fresh non-empty blob: URL.
CreateObjectURL(c) == "blob:" \o ToString(c)

\* new File([blob], `${originalName}.png`, { type: "image/png" })
ImageFile(f) == [name |-> OutputName(f.name), type |-> "image/png"]

\* The outermost catch of convertPdfToImage (err instanceof Error).
OuterCatch(e) == Failure("Failed to convert PDF: " \o e.message)

\* The catch of performConversion.
ConversionError(e) == Failure("Conversion error: " \o ErrString(e))

\* The catch of convertPdfToImageSimple.
ConversionFailed(e) == Failure("Conversion failed: " \o ErrString(e))

\* Variant of CreateFileFailure that keeps the object URL created before the
\* exception.
CreateFileFailureLeaky(e) ==
    [imageUrl |-> "blob:leaked", file |-> <<>>,
     error |-> <<"Failed to create image file: " \o ErrString(e)>>]

\* The catch around `new File` / createObjectURL in the toBlob callback of
\* convertPdfToImage.
CreateFileFailure(e) == Failure("Failed to create image file: " \o ErrString(e))

(***************************************************************************)
(* State.                                                                  *)
(***************************************************************************)
VARIABLES
    pdfjsLib,      \* module-level handle: engine id or "none"
    isLoading,     \* module-level flag
    loadPromise,   \* <<>> (null) or <<[state, value]>>
    winPdfjsLib,   \* window.pdfjsLib: engine id or "none"
    engines,       \* engine id -> [version, workerSrc, writes]; writes counts
                   \* the assignments to GlobalWorkerOptions.workerSrc
    head,          \* script elements appended to document.head, in order
    importLog,     \* dynamic imports of pdfjs-dist/build/pdf.mjs, in order
    calls,         \* per call: inputs, position, locals, outcome, the stage
                   \* operations it has invoked (ops) and the stage that failed
    unhandled      \* calls in which an exception escaped a callback

vars == <<pdfjsLib, isLoading, loadPromise, winPdfjsLib, engines, head,
          importLog, calls, unhandled>>

IdleCall ==
    [mode |-> "none", file |-> NullInput, pc |-> "idle", lib |-> "none",
     result |-> <<>>, viaOnload |-> FALSE, calledLoad |-> FALSE,
     acq |-> "none", joined |-> {}, winAtStart |-> FALSE, modAtStart |-> FALSE,
     ops |-> <<>>, failedAt |-> "none"]

Init ==
    /\ pdfjsLib = "none"
    /\ isLoading = FALSE
    /\ loadPromise = <<>>
    /\ winPdfjsLib = "none"
    /\ engines = [k \in {} |-> [version |-> "", workerSrc |-> <<>>, writes |-> 0]]
    /\ head = <<>>
    /\ importLog = <<>>
    /\ calls = [c \in Calls |-> IdleCall]
    /\ unhandled = {}

ScriptEngine(n) == "script" \o ToString(n)

Put(E, id, rec) == [k \in DOMAIN E \cup {id} |-> IF k = id THEN rec ELSE E[k]]

Acquiring == {d \in Calls : calls[d].acq = "pending"}

ImportHasFailed(log) == \E i \in 1..Len(log) : log[i].state = "failed"

\* A script element appended to document.head on behalf of call c.
\* afterImportFail records whether a module import had failed by then.
ScriptElement(src, kind, c, log) ==
    [src |-> src, kind |-> kind, by |-> c, state |-> "pending",
     afterImportFail |-> ImportHasFailed(log)]

\* Calls are issued in index order (call c+1 not before call c).
CanStart(c) ==
    /\ calls[c].pc = "idle"
    /\ IF c = 1 THEN TRUE ELSE calls[c - 1].pc # "idle"

Entered(c, mode, f) ==
    [calls[c] EXCEPT !.mode = mode, !.file = f,
                     !.winAtStart = (winPdfjsLib # "none"),
                     !.modAtStart = (pdfjsLib # "none")]

\* The call's promise resolves with res.
Resolved(rec, res) == [rec EXCEPT !.pc = "done", !.result = <<res>>]

\* The call invokes the stage operations seq, in order.
Invoked(rec, seq) == [rec EXCEPT !.ops = @ \o seq]

\* The stage operation `stage` of the call has failed.
Failed(rec, stage) == [rec EXCEPT !.failedAt = stage]

\* Engine obtained: the call goes on to `await file.arrayBuffer()`.
GotEngine(rec, lib) ==
    Invoked([rec EXCEPT !.lib = lib, !.acq = "engine", !.pc = "buffer"],
            <<"arrayBuffer">>)

\* Script execution: a script that defines the global binds a new engine
\* object of the script's version to window.pdfjsLib.
WinAfterScript(n, defines) == IF defines THEN ScriptEngine(n) ELSE winPdfjsLib

EnginesAfterScript(n, defines) ==
    IF defines
    THEN Put(engines, ScriptEngine(n),
             [version |-> UrlVersion(head[n].src), workerSrc |-> <<>>,
              writes |-> 0])
    ELSE engines

SetWorkerSrc(E, id, url) ==
    [E EXCEPT ![id].workerSrc = url, ![id].writes = @ + 1]

SetScriptState(n, st) == [head EXCEPT ![n].state = st]

\* Variant of LoadPdfJs without `if (loadPromise) return loadPromise`: a
\* caller that finds no engine yet starts an acquisition of its own.
LoadPdfJsNoPendingCheck(c, rec) ==
    LET r == [rec EXCEPT !.calledLoad = TRUE] IN
    IF pdfjsLib # "none"
    THEN /\ calls' = [calls EXCEPT ![c] = GotEngine(r, pdfjsLib)]
         /\ UNCHANGED <<isLoading, loadPromise, importLog>>
    ELSE /\ isLoading' = TRUE
         /\ loadPromise' = <<[state |-> "pending", value |-> "none"]>>
         /\ importLog' = Append(importLog, [by |-> c, state |-> "pending"])
         /\ calls' = [calls EXCEPT ![c] = [r EXCEPT !.pc = "load"]]

\* Variant of LoadPdfJs without either memo test: every call starts an
\* acquisition.
LoadPdfJsAlwaysLoads(c, rec) ==
    /\ isLoading' = TRUE
    /\ loadPromise' = <<[state |-> "pending", value |-> "none"]>>
    /\ importLog' = Append(importLog, [by |-> c, state |-> "pending"])
    /\ calls' = [calls EXCEPT ![c] = [rec EXCEPT !.calledLoad = TRUE, !.pc = "load"]]

(***************************************************************************)
(* loadPdfJs, as called by call c whose record is rec (the caller awaits   *)
(* the returned promise).  The executor of the new promise runs            *)
(* synchronously up to `await import(...)`.                                *)
(***************************************************************************)
LoadPdfJs(c, rec) ==
    LET r == [rec EXCEPT !.calledLoad = TRUE] IN
    IF pdfjsLib # "none"
    THEN /\ calls' = [calls EXCEPT ![c] = GotEngine(r, pdfjsLib)]
         /\ UNCHANGED <<isLoading, loadPromise, importLog>>
    ELSE IF loadPromise # <<>>
    THEN /\ calls' = [calls EXCEPT ![c] = [r EXCEPT !.pc = "load"]]
         /\ UNCHANGED <<isLoading, loadPromise, importLog>>
    ELSE /\ isLoading' = TRUE
         /\ loadPromise' = <<[state |-> "pending", value |-> "none"]>>
         /\ importLog' = Append(importLog, [by |-> c, state |-> "pending"])
         /\ calls' = [calls EXCEPT ![c] = [r EXCEPT !.pc = "load"]]

\* Variant of ImportResolved in which the fallback script is injected after
\* the import whatever its outcome (as from a finally block).
ImportResolvedAndInjects(version, exposes, setsGlobal) ==
    \E n \in 1..Len(importLog) :
        /\ importLog[n].state = "pending"
        /\ importLog' = [importLog EXCEPT ![n].state = "ok"]
        /\ LET reported == IF exposes THEN version ELSE PinnedVersion IN
           engines' = Put(engines, "module",
                          [version |-> version,
                           workerSrc |-> JsDelivrWorker(reported),
                           writes |-> 1])
        /\ winPdfjsLib' = IF setsGlobal THEN "module" ELSE winPdfjsLib
        /\ pdfjsLib' = "module"
        /\ isLoading' = FALSE
        /\ loadPromise' = <<[state |-> "resolved", value |-> "module"]>>
        /\ head' = Append(head,
                          ScriptElement(JsDelivrScript(PinnedVersion), "fallback",
                                        importLog[n].by, importLog'))
        /\ UNCHANGED <<calls, unhandled>>

\* The dynamic import resolves with the module namespace object `lib`.
\* version: the module's version; exposes: whether lib.version is set;
\* setsGlobal: whether evaluating the module also binds globalThis.pdfjsLib.
ImportResolved(version, exposes, setsGlobal) ==
    \E n \in 1..Len(importLog) :
        /\ importLog[n].state = "pending"
        /\ importLog' = [importLog EXCEPT ![n].state = "ok"]
        /\ LET reported == IF exposes THEN version ELSE PinnedVersion IN
           engines' = Put(engines, "module",
                          [version |-> version,
                           workerSrc |-> JsDelivrWorker(reported),
                           writes |-> 1])
        /\ winPdfjsLib' = IF setsGlobal THEN "module" ELSE winPdfjsLib
        /\ pdfjsLib' = "module"
        /\ isLoading' = FALSE
        /\ loadPromise' = <<[state |-> "resolved", value |-> "module"]>>
        /\ UNCHANGED <<head, calls, unhandled>>

\* The dynamic import rejects: the catch injects the fallback script.
ImportRejected ==
    \E n \in 1..Len(importLog) :
        /\ importLog[n].state = "pending"
        /\ importLog' = [importLog EXCEPT ![n].state = "failed"]
        /\ head' = Append(head,
                          ScriptElement(JsDelivrScript(PinnedVersion), "fallback",
                                        importLog[n].by, importLog'))
        /\ UNCHANGED <<pdfjsLib, isLoading, loadPromise, winPdfjsLib, engines,
                       calls, unhandled>>

\* The fallback script fires onload (lines 50-58).
FallbackScriptLoaded(defines) ==
    \E n \in 1..Len(head) :
        /\ head[n].kind = "fallback"
        /\ head[n].state = "pending"
        /\ head' = SetScriptState(n, "loaded")
        /\ LET win == WinAfterScript(n, defines) IN
           IF win # "none"
           THEN /\ winPdfjsLib' = win
                /\ pdfjsLib' = win
                /\ engines' = SetWorkerSrc(EnginesAfterScript(n, defines), win,
                                           JsDelivrWorker(PinnedVersion))
                /\ isLoading' = FALSE
                /\ loadPromise' = <<[state |-> "resolved", value |-> win]>>
           ELSE UNCHANGED <<winPdfjsLib, pdfjsLib, engines, isLoading, loadPromise>>
        /\ UNCHANGED <<importLog, calls, unhandled>>

\* The fallback script fires onerror: script.onerror = reject (line 59).
FallbackScriptFailed ==
    \E n \in 1..Len(head) :
        /\ head[n].kind = "fallback"
        /\ head[n].state = "pending"
        /\ head' = SetScriptState(n, "error")
        /\ loadPromise' = <<[state |-> "rejected", value |-> "none"]>>
        /\ UNCHANGED <<pdfjsLib, isLoading, winPdfjsLib, engines, importLog,
                       calls, unhandled>>

(***************************************************************************)
(* convertPdfToImage.                                                      *)
(***************************************************************************)
\* Variant of ConvertPdfToImage that asks loadPdfJs (module import) first
\* instead of injecting the CDN script.
ConvertPdfToImageImportFirst(c, f) ==
    /\ CanStart(c)
    /\ LET rec == Entered(c, "resilient", f) IN
       IF ~IsFileInstance(f)
       THEN /\ calls' = [calls EXCEPT ![c] =
                            Resolved(Failed(rec, "validate"),
                                     Failure("Invalid file provided"))]
            /\ UNCHANGED <<isLoading, loadPromise, importLog>>
       ELSE IF ~IsPdf(f)
       THEN /\ calls' = [calls EXCEPT ![c] =
                            Resolved(Failed(rec, "validate"),
                                     Failure("File is not a PDF"))]
            /\ UNCHANGED <<isLoading, loadPromise, importLog>>
       ELSE IF winPdfjsLib # "none"
       THEN /\ calls' = [calls EXCEPT ![c] = GotEngine(rec, winPdfjsLib)]
            /\ UNCHANGED <<isLoading, loadPromise, importLog>>
       ELSE LoadPdfJs(c, [rec EXCEPT !.acq = "pending", !.joined = Acquiring])
    /\ UNCHANGED <<pdfjsLib, winPdfjsLib, engines, head, unhandled>>

\* Lines 77-127: validation, then the global engine or the CDN script.
ConvertPdfToImage(c, f) ==
    /\ CanStart(c)
    /\ LET rec == Entered(c, "resilient", f) IN
       IF ~IsFileInstance(f)
       THEN /\ calls' = [calls EXCEPT ![c] =
                            Resolved(Failed(rec, "validate"),
                                     Failure("Invalid file provided"))]
            /\ UNCHANGED head
       ELSE IF ~IsPdf(f)
       THEN /\ calls' = [calls EXCEPT ![c] =
                            Resolved(Failed(rec, "validate"),
                                     Failure("File is not a PDF"))]
            /\ UNCHANGED head
       ELSE IF winPdfjsLib # "none"
       THEN /\ calls' = [calls EXCEPT ![c] = GotEngine(rec, winPdfjsLib)]
            /\ UNCHANGED head
       ELSE /\ head' = Append(head, ScriptElement(JsDelivrScript(PinnedVersion),
                                                  "direct", c, importLog))
            /\ calls' = [calls EXCEPT ![c] =
                            [rec EXCEPT !.pc = "script", !.acq = "pending",
                                        !.joined = Acquiring]]
    /\ UNCHANGED <<pdfjsLib, isLoading, loadPromise, winPdfjsLib, engines,
                   importLog, unhandled>>

\* The call's own script fires onload (lines 117-122).  With the global
\* still absent, `lib.GlobalWorkerOptions` throws inside the handler and the
\* awaited promise is never settled.
DirectScriptLoaded(c, defines) ==
    \E n \in 1..Len(head) :
        /\ head[n].kind = "direct"
        /\ head[n].by = c
        /\ head[n].state = "pending"
        /\ calls[c].pc = "script"
        /\ head' = SetScriptState(n, "loaded")
        /\ LET win == WinAfterScript(n, defines) IN
           IF win # "none"
           THEN /\ winPdfjsLib' = win
                /\ engines' = SetWorkerSrc(EnginesAfterScript(n, defines), win,
                                           JsDelivrWorker(PinnedVersion))
                /\ calls' = [calls EXCEPT ![c] = GotEngine(calls[c], win)]
                /\ UNCHANGED unhandled
           ELSE /\ calls' = [calls EXCEPT ![c] =
                                [Failed(calls[c], "acquire") EXCEPT !.pc = "hung"]]
                /\ unhandled' = unhandled \cup {c}
                /\ UNCHANGED <<winPdfjsLib, engines>>
        /\ UNCHANGED <<pdfjsLib, isLoading, loadPromise, importLog>>

\* The call's own script fires onerror: the catch falls back to loadPdfJs
\* (lines 128-137).
DirectScriptFailed(c) ==
    \E n \in 1..Len(head) :
        /\ head[n].kind = "direct"
        /\ head[n].by = c
        /\ head[n].state = "pending"
        /\ calls[c].pc = "script"
        /\ head' = SetScriptState(n, "error")
        /\ LoadPdfJs(c, calls[c])
        /\ UNCHANGED <<pdfjsLib, winPdfjsLib, engines, unhandled>>

\* `lib = await loadPdfJs()` settles (lines 133-136).  A rejection carries
\* the script's error Event, whose message is undefined.
LoadSettled(c) ==
    /\ calls[c].pc = "load"
    /\ loadPromise # <<>>
    /\ loadPromise[1].state # "pending"
    /\ IF loadPromise[1].state = "resolved"
       THEN calls' = [calls EXCEPT ![c] = GotEngine(calls[c], loadPromise[1].value)]
       ELSE calls' = [calls EXCEPT ![c] =
                [Resolved(Failed(calls[c], "acquire"),
                          OuterCatch([name |-> "Error",
                                      message |-> "Failed to load PDF.js: undefined"]))
                   EXCEPT !.acq = "failed"]]
    /\ UNCHANGED <<pdfjsLib, isLoading, loadPromise, winPdfjsLib, engines,
                   head, importLog, unhandled>>

(***************************************************************************)
(* convertPdfToImageSimple and performConversion.                          *)
(***************************************************************************)
\* performConversion up to its first await (lines 317-329): lib is read
\* from the global binding, then file.arrayBuffer() is called inside the
\* try; on an input without arrayBuffer the TypeError is caught at once.
PerformConversion(rec, win, viaOnload) ==
    LET r == [rec EXCEPT !.lib = win, !.acq = "engine", !.viaOnload = viaOnload] IN
    IF win = "none"
    THEN Resolved(Failed(r, "acquire"), Failure("PDF.js not loaded"))
    ELSE IF ~HasArrayBuffer(r.file)
    THEN Resolved(Failed(Invoked(r, <<"arrayBuffer">>), "arrayBuffer"),
                  ConversionError(TypeErrorFault))
    ELSE Invoked([r EXCEPT !.pc = "buffer"], <<"arrayBuffer">>)

\* Variant of ConvertPdfToImageSimple without the `!window.pdfjsLib` test:
\* the script is injected on every call.
ConvertPdfToImageSimpleAlwaysInject(c, f) ==
    /\ CanStart(c)
    /\ head' = Append(head, ScriptElement(CdnjsScript, "simple", c, importLog))
    /\ calls' = [calls EXCEPT ![c] =
                    [Entered(c, "simple", f) EXCEPT !.pc = "sscript",
                                                    !.acq = "pending",
                                                    !.joined = Acquiring]]
    /\ UNCHANGED <<pdfjsLib, isLoading, loadPromise, winPdfjsLib, engines,
                   importLog, unhandled>>

\* Lines 267-306: no validation; the script is injected when the global
\* binding is absent, else the conversion starts at once.
ConvertPdfToImageSimple(c, f) ==
    /\ CanStart(c)
    /\ LET rec == Entered(c, "simple", f) IN
       IF winPdfjsLib = "none"
       THEN /\ head' = Append(head, ScriptElement(CdnjsScript, "simple", c, importLog))
            /\ calls' = [calls EXCEPT ![c] =
                            [rec EXCEPT !.pc = "sscript", !.acq = "pending",
                                        !.joined = Acquiring]]
       ELSE /\ calls' = [calls EXCEPT ![c] =
                            PerformConversion(rec, winPdfjsLib, FALSE)]
            /\ UNCHANGED head
    /\ UNCHANGED <<pdfjsLib, isLoading, loadPromise, winPdfjsLib, engines,
                   importLog, unhandled>>

\* The simple call's script fires onload (lines 283-291).  With the global
\* absent the async handler throws on `.GlobalWorkerOptions`: its promise
\* rejects unhandled and resolve is never called.
SimpleScriptLoaded(c, defines) ==
    \E n \in 1..Len(head) :
        /\ head[n].kind = "simple"
        /\ head[n].by = c
        /\ head[n].state = "pending"
        /\ calls[c].pc = "sscript"
        /\ head' = SetScriptState(n, "loaded")
        /\ LET win == WinAfterScript(n, defines) IN
           IF win # "none"
           THEN /\ winPdfjsLib' = win
                /\ engines' = SetWorkerSrc(EnginesAfterScript(n, defines), win,
                                           CdnjsWorker)
                /\ calls' = [calls EXCEPT ![c] =
                                PerformConversion(calls[c], win, TRUE)]
                /\ UNCHANGED unhandled
           ELSE /\ calls' = [calls EXCEPT ![c] =
                                [Failed(calls[c], "acquire") EXCEPT !.pc = "hung"]]
                /\ unhandled' = unhandled \cup {c}
                /\ UNCHANGED <<winPdfjsLib, engines>>
        /\ UNCHANGED <<pdfjsLib, isLoading, loadPromise, importLog>>

\* The simple call's script fires onerror (lines 293-299).
SimpleScriptFailed(c) ==
    \E n \in 1..Len(head) :
        /\ head[n].kind = "simple"
        /\ head[n].by = c
        /\ head[n].state = "pending"
        /\ calls[c].pc = "sscript"
        /\ head' = SetScriptState(n, "error")
        /\ calls' = [calls EXCEPT ![c] =
                        [Resolved(Failed(calls[c], "acquire"),
                                  Failure("Failed to load PDF.js library"))
                           EXCEPT !.acq = "failed"]]
        /\ UNCHANGED <<pdfjsLib, isLoading, loadPromise, winPdfjsLib, engines,
                       importLog, unhandled>>

(***************************************************************************)
(* The render pipeline of both entry points.  Each action is the settling  *)
(* of the awaited operation of stage pc and the synchronous code after it. *)
(***************************************************************************)
\* A fault caught by the enclosing try: the outer catch of convertPdfToImage
\* or the catch of performConversion.
Caught(rec, e) ==
    IF rec.mode = "resilient"
    THEN Resolved(rec, OuterCatch(e))
    ELSE Resolved(rec, ConversionError(e))

\* A promise returned from inside the try without await has rejected (toBlob
\* threw in the executor): convertPdfToImage's promise rejects;
\* performConversion's rejection is caught by convertPdfToImageSimple's try
\* when awaited there, and is an unhandled rejection of the async onload
\* handler otherwise.
ReturnedPromiseRejected(rec, e) ==
    IF rec.mode = "resilient"
    THEN [rec EXCEPT !.pc = "rejected"]
    ELSE IF rec.viaOnload
    THEN [rec EXCEPT !.pc = "hung"]
    ELSE Resolved(rec, ConversionFailed(e))

\* An exception thrown by `new File` / createObjectURL inside the toBlob
\* callback: caught in convertPdfToImage (lines 231-238), uncaught in
\* performConversion, whose promise then never settles.
CallbackThrew(rec, e) ==
    IF rec.mode = "resilient"
    THEN Resolved(rec, CreateFileFailure(e))
    ELSE [rec EXCEPT !.pc = "hung"]

\* The step left an exception or rejection with no handler.
Escapes(rec2) == rec2.pc = "hung"

Step(c, rec2) ==
    /\ calls' = [calls EXCEPT ![c] = rec2]
    /\ unhandled' = IF Escapes(rec2) THEN unhandled \cup {c} ELSE unhandled
    /\ UNCHANGED <<pdfjsLib, isLoading, loadPromise, winPdfjsLib, engines,
                   head, importLog>>

\* `await file.arrayBuffer()` settles; on success getDocument is called.
BufferSettled(c, ok) ==
    /\ calls[c].pc = "buffer"
    /\ Step(c, IF ok
               THEN Invoked([calls[c] EXCEPT !.pc = "document"], <<"getDocument">>)
               ELSE Caught(Failed(calls[c], "arrayBuffer"), Fault("arrayBuffer")))

\* Variant of DocumentSettled without the inner try/catch around getDocument:
\* the rejection falls through to the outermost catch of the entry point.
DocumentSettledNoInnerCatch(c, ok) ==
    /\ calls[c].pc = "document"
    /\ Step(c, IF ok
               THEN Invoked([calls[c] EXCEPT !.pc = "page"], <<"getPage">>)
               ELSE Caught(Failed(calls[c], "getDocument"), Fault("getDocument")))

\* getDocument(...).promise settles (or getDocument threw); on success
\* getPage(1) is called.
DocumentSettled(c, ok) ==
    /\ calls[c].pc = "document"
    /\ Step(c, IF ok
               THEN Invoked([calls[c] EXCEPT !.pc = "page"], <<"getPage">>)
               ELSE IF calls[c].mode = "resilient"
               THEN Resolved(Failed(calls[c], "getDocument"), Failure(
                   "Failed to parse PDF file. It may be corrupted or password protected."))
               ELSE Caught(Failed(calls[c], "getDocument"), Fault("getDocument")))

PageOutcomes == {"ok", "getPageFails", "getViewportThrows", "noContext"}

\* getPage(1) settles; then getViewport, createElement("canvas"),
\* getContext("2d") and the call of page.render run synchronously.
PageSettled(c, out) ==
    /\ calls[c].pc = "page"
    /\ Step(c, CASE out = "ok" ->
                      Invoked([calls[c] EXCEPT !.pc = "render"],
                              <<"getViewport", "getContext", "render">>)
                 [] out = "getPageFails" ->
                      Caught(Failed(calls[c], "getPage"), Fault("getPage"))
                 [] out = "getViewportThrows" ->
                      Caught(Failed(Invoked(calls[c], <<"getViewport">>), "getViewport"),
                             Fault("getViewport"))
                 [] out = "noContext" ->
                      Resolved(Failed(Invoked(calls[c], <<"getViewport", "getContext">>),
                                      "getContext"),
                               IF calls[c].mode = "resilient"
                               THEN Failure("Canvas context is not available")
                               ELSE Failure("Canvas context not available")))

RenderOutcomes == {"ok", "renderFails", "toBlobThrows"}

\* page.render(...).promise settles; on success the result promise is
\* created and canvas.toBlob is called in its executor.
RenderSettled(c, out) ==
    /\ calls[c].pc = "render"
    /\ Step(c, CASE out = "ok" ->
                      Invoked([calls[c] EXCEPT !.pc = "encode"], <<"toBlob">>)
                 [] out = "renderFails" ->
                      Caught(Failed(calls[c], "render"), Fault("render"))
                 [] out = "toBlobThrows" ->
                      ReturnedPromiseRejected(
                          Failed(Invoked(calls[c], <<"toBlob">>), "toBlob"),
                          Fault("toBlob")))

EncodeOutcomes == {"blob", "null", "fileThrows"}

\* Variant of BlobCallback without the `if (blob)` test: the File is built
\* from whatever the encoder passed, null included.
BlobCallbackNoNullCheck(c, out) ==
    /\ calls[c].pc = "encode"
    /\ Step(c, CASE out \in {"blob", "null"} ->
                      Resolved(Invoked(IF out = "null"
                                       THEN Failed(calls[c], "encode")
                                       ELSE calls[c],
                                       <<"File", "createObjectURL">>),
                               Success(CreateObjectURL(c), ImageFile(calls[c].file)))
                 [] out = "fileThrows" ->
                      CallbackThrew(Failed(Invoked(calls[c], <<"File">>), "File"),
                                    Fault("File")))

\* The toBlob callback runs (lines 206-239 and 352-370): with a blob, the
\* File is constructed and the object URL created; with null, neither.
BlobCallback(c, out) ==
    /\ calls[c].pc = "encode"
    /\ Step(c, CASE out = "blob" ->
                      Resolved(Invoked(calls[c], <<"File", "createObjectURL">>),
                               Success(CreateObjectURL(c), ImageFile(calls[c].file)))
                 [] out = "null" ->
                      Resolved(Failed(calls[c], "encode"),
                               IF calls[c].mode = "resilient"
                               THEN Failure("Failed to create image from canvas")
                               ELSE Failure("Failed to create image"))
                 [] out = "fileThrows" ->
                      CallbackThrew(Failed(Invoked(calls[c], <<"File">>), "File"),
                                    Fault("File")))

(***************************************************************************)
(* Specification.                                                          *)
(***************************************************************************)
Next ==
    \/ \E c \in Calls, f \in Inputs : ConvertPdfToImage(c, f)
    \/ \E c \in Calls, f \in Inputs : ConvertPdfToImageSimple(c, f)
    \/ \E c \in Calls, defines \in BOOLEAN : DirectScriptLoaded(c, defines)
    \/ \E c \in Calls : DirectScriptFailed(c)
    \/ \E c \in Calls : LoadSettled(c)
    \/ \E version \in ModuleVersions, exposes \in BOOLEAN, setsGlobal \in BOOLEAN :
          ImportResolved(version, exposes, setsGlobal)
    \/ ImportRejected
    \/ \E defines \in BOOLEAN : FallbackScriptLoaded(defines)
    \/ FallbackScriptFailed
    \/ \E c \in Calls, defines \in BOOLEAN : SimpleScriptLoaded(c, defines)
    \/ \E c \in Calls : SimpleScriptFailed(c)
    \/ \E c \in Calls, ok \in BOOLEAN : BufferSettled(c, ok)
    \/ \E c \in Calls, ok \in BOOLEAN : DocumentSettled(c, ok)
    \/ \E c \in Calls, out \in PageOutcomes : PageSettled(c, out)
    \/ \E c \in Calls, out \in RenderOutcomes : RenderSettled(c, out)
    \/ \E c \in Calls, out \in EncodeOutcomes : BlobCallback(c, out)

Spec == Init /\ [][Next]_vars

\* One call of either entry point on a file of NameFiles, carried through a
\* successful acquisition and a successful pipeline to its output file.
NameNext ==
    \/ \E f \in NameFiles : ConvertPdfToImage(1, f)
    \/ \E f \in NameFiles : ConvertPdfToImageSimple(1, f)
    \/ DirectScriptLoaded(1, TRUE)
    \/ SimpleScriptLoaded(1, TRUE)
    \/ BufferSettled(1, TRUE)
    \/ DocumentSettled(1, TRUE)
    \/ PageSettled(1, "ok")
    \/ RenderSettled(1, "ok")
    \/ BlobCallback(1, "blob")

NameSpec == Init /\ [][NameNext]_vars

(***************************************************************************)
(* Properties.                                                             *)
(***************************************************************************)
Started(c) == calls[c].pc # "idle"

HasResult(c) == calls[c].result # <<>>

ResultOf(c) == calls[c].result[1]

ScriptsBy(c) == {n \in 1..Len(head) : head[n].by = c}

ImportsBy(c) == {i \in 1..Len(importLog) : importLog[i].by = c}

\* Call c has attempted no engine acquisition of any kind.
NoAcquisition(c) ==
    /\ ScriptsBy(c) = {}
    /\ ImportsBy(c) = {}
    /\ ~calls[c].calledLoad

IsSuccess(r) == r.imageUrl # "" /\ r.file # <<>> /\ r.error = <<>>

IsFailure(r) == r.error # <<>> /\ r.imageUrl = "" /\ r.file = <<>>

\* C1: every result a call resolves with is exactly one of success
\* (non-empty imageUrl, file present, no error) or failure (error present,
\* imageUrl "", file null), and a call resolves only with a result.
C1_ResultShape ==
    \A c \in Calls :
        /\ (calls[c].pc = "done") = HasResult(c)
        /\ HasResult(c) => (IsSuccess(ResultOf(c)) # IsFailure(ResultOf(c)))

\* C1 witness: one call has resolved with a success and another with the
\* failure produced in the toBlob callback's catch.
C1_Witness ==
    \E c, d \in Calls :
        /\ HasResult(c) /\ IsSuccess(ResultOf(c))
        /\ HasResult(d) /\ ResultOf(d) = CreateFileFailure(Fault("File"))

\* C2: the promise of a call never rejects and no exception escapes
\* unhandled from a callback, whatever fails.
C2_NeverRejects ==
    /\ \A c \in Calls : calls[c].pc # "rejected"
    /\ unhandled = {}

\* Some step of call c can be taken: an external outcome it waits for is
\* still to be signalled.
CallStep(c) ==
    \/ \E defines \in BOOLEAN : DirectScriptLoaded(c, defines)
    \/ DirectScriptFailed(c)
    \/ LoadSettled(c)
    \/ \E defines \in BOOLEAN : SimpleScriptLoaded(c, defines)
    \/ SimpleScriptFailed(c)
    \/ \E ok \in BOOLEAN : BufferSettled(c, ok)
    \/ \E ok \in BOOLEAN : DocumentSettled(c, ok)
    \/ \E out \in PageOutcomes : PageSettled(c, out)
    \/ \E out \in RenderOutcomes : RenderSettled(c, out)
    \/ \E out \in EncodeOutcomes : BlobCallback(c, out)

LoaderStep ==
    \/ \E version \in ModuleVersions, exposes \in BOOLEAN, setsGlobal \in BOOLEAN :
          ImportResolved(version, exposes, setsGlobal)
    \/ ImportRejected
    \/ \E defines \in BOOLEAN : FallbackScriptLoaded(defines)
    \/ FallbackScriptFailed

\* C3: when every external operation signals an outcome, every call reaches
\* a terminal state and resolves with a result: a started call that has not
\* resolved is never left with every external outcome already signalled.
C3_Terminates ==
    \A c \in Calls :
        \/ calls[c].pc \in {"idle", "done"}
        \/ ENABLED CallStep(c)
        \/ calls[c].pc = "load" /\ ENABLED LoaderStep

\* The last four characters are ".pdf" in any letter case.
C4_HasPdfSuffix(name) ==
    /\ Len(name) >= 4
    /\ name[Len(name) - 3] = "."
    /\ name[Len(name) - 2] \in {"p", "P"}
    /\ name[Len(name) - 1] \in {"d", "D"}
    /\ name[Len(name)] \in {"f", "F"}

C4_NotAFile(f) == f.kind # "file"

C4_NotAPdf(f) ==
    f.kind = "file" /\ f.type # "application/pdf" /\ ~C4_HasPdfSuffix(f.name)

\* C4: in convertPdfToImage a null or non-File input yields "Invalid file
\* provided" and a File that is neither of PDF type nor named *.pdf (any
\* case) yields "File is not a PDF", both without any script, import or
\* loadPdfJs call; a File with the PDF type or the suffix passes validation.
C4_ResilientValidation ==
    \A c \in Calls :
        (Started(c) /\ calls[c].mode = "resilient") =>
            LET f == calls[c].file IN
            /\ C4_NotAFile(f) =>
                 /\ calls[c].result = <<Failure("Invalid file provided")>>
                 /\ NoAcquisition(c)
            /\ C4_NotAPdf(f) =>
                 /\ calls[c].result = <<Failure("File is not a PDF")>>
                 /\ NoAcquisition(c)
            /\ (~C4_NotAFile(f) /\ ~C4_NotAPdf(f)) =>
                 /\ calls[c].result # <<Failure("Invalid file provided")>>
                 /\ calls[c].result # <<Failure("File is not a PDF")>>
                 /\ calls[c].acq # "none"

\* C4 witness: a text file was refused, and a file named r.PDF with no media
\* type passed validation and started acquisition.
C4_Witness ==
    \E c, d \in Calls :
        /\ calls[c].mode = "resilient" /\ calls[c].file = TextFile
        /\ calls[c].result = <<Failure("File is not a PDF")>>
        /\ calls[d].mode = "resilient" /\ calls[d].file = NamedPdf
        /\ calls[d].pc = "script"

\* C5: convertPdfToImageSimple validates like convertPdfToImage: a non-file
\* input yields the invalid-input failure and a non-PDF file the wrong-type
\* failure, without injecting a script.
C5_SimpleValidation ==
    \A c \in Calls :
        (Started(c) /\ calls[c].mode = "simple") =>
            LET f == calls[c].file IN
            /\ C4_NotAFile(f) =>
                 /\ calls[c].result = <<Failure("Invalid file provided")>>
                 /\ ScriptsBy(c) = {}
            /\ C4_NotAPdf(f) =>
                 /\ calls[c].result = <<Failure("File is not a PDF")>>
                 /\ ScriptsBy(c) = {}

\* C6: two calls whose acquisitions overlap before any engine is loaded run
\* one acquisition between them (at most one script element per strategy,
\* at most one module import) and end acquisition the same way.
C6_SharedAcquisition ==
    \A c \in Calls : \A d \in calls[c].joined :
        /\ \A kind \in {"direct", "fallback", "simple"} :
              Cardinality({n \in ScriptsBy(c) \cup ScriptsBy(d) :
                              head[n].kind = kind}) <= 1
        /\ Cardinality(ImportsBy(c) \cup ImportsBy(d)) <= 1
        /\ (calls[c].acq \in {"engine", "failed"} /\ calls[d].acq \in {"engine", "failed"})
              => calls[c].acq = calls[d].acq

AcquisitionInFlight ==
    \/ \E i \in 1..Len(importLog) : importLog[i].state = "pending"
    \/ \E n \in 1..Len(head) : head[n].kind = "fallback" /\ head[n].state = "pending"

\* C7: once the module import has failed and the fallback script has fired
\* onerror, the loader is reset (loadPromise null, isLoading false), so a
\* later loadPdfJs starts afresh.
C7_LoaderReset ==
    ((\E n \in 1..Len(head) : head[n].kind = "fallback" /\ head[n].state = "error")
        /\ ~AcquisitionInFlight)
    => (loadPromise = <<>> /\ isLoading = FALSE)

\* C8: a call that starts when an engine is already present (in the module
\* handle or on the global binding) injects no script and attempts no
\* module import.
C8_AcquireOnce ==
    \A c \in Calls :
        (calls[c].winAtStart \/ calls[c].modAtStart) =>
            (ScriptsBy(c) = {} /\ ImportsBy(c) = {})

\* C9 as stated: a resilient call injects no script element before a module
\* import has been attempted and has failed.
C9_ImportBeforeScript ==
    \A n \in 1..Len(head) :
        calls[head[n].by].mode = "resilient" => head[n].afterImportFail

\* C9 (amended): in resilient mode the CDN script comes first and the
\* module import is the fallback: every module import was started by a
\* resilient call whose own CDN script had fired onerror, and loadPdfJs's
\* fallback script is injected only after that import failed.
C9_ScriptBeforeImport ==
    /\ \A i \in 1..Len(importLog) :
          /\ calls[importLog[i].by].mode = "resilient"
          /\ \E n \in ScriptsBy(importLog[i].by) :
                head[n].kind = "direct" /\ head[n].state = "error"
    /\ \A n \in 1..Len(head) :
          head[n].kind = "fallback" =>
             /\ head[n].afterImportFail
             /\ \E i \in ImportsBy(head[n].by) : importLog[i].state = "failed"

\* C9 witness: a resilient call's script failed, its import failed and the
\* fallback script was injected.
C9_Witness ==
    \E c \in Calls :
        /\ calls[c].mode = "resilient"
        /\ \E n \in ScriptsBy(c) : head[n].kind = "direct" /\ head[n].state = "error"
        /\ \E i \in ImportsBy(c) : importLog[i].state = "failed"
        /\ \E n \in ScriptsBy(c) : head[n].kind = "fallback"

\* C10 (amended): a simplified call never imports the module and never
\* calls loadPdfJs; the only script it injects is the pinned cdnjs one; and
\* a simplified call that starts with an engine on the global binding
\* (whoever bound it) injects nothing and goes straight to
\* performConversion.
C10_SimpleMode ==
    \A c \in Calls :
        (Started(c) /\ calls[c].mode = "simple") =>
            /\ ~calls[c].calledLoad
            /\ ImportsBy(c) = {}
            /\ \A n \in ScriptsBy(c) :
                  head[n].src = CdnjsScript /\ head[n].kind = "simple"
            /\ Cardinality(ScriptsBy(c)) <= 1
            /\ calls[c].winAtStart =>
                  /\ ScriptsBy(c) = {}
                  /\ calls[c].acq = "engine"
                  /\ ~calls[c].viaOnload

\* C10 witness: a simplified call loaded the engine with its script, and a
\* later simplified call is converting with that engine without a script.
C10_Witness ==
    \E c, d \in Calls :
        /\ calls[c].mode = "simple" /\ calls[d].mode = "simple"
        /\ \E n \in ScriptsBy(c) :
              /\ head[n].state = "loaded"
              /\ calls[d].lib = ScriptEngine(n)
        /\ calls[d].winAtStart
        /\ calls[d].pc = "buffer"

\* The engine call c converts with was defined by a pinned cdnjs script.
C10_FromPinnedScript(c) ==
    \E n \in 1..Len(head) :
        /\ head[n].src = CdnjsScript
        /\ head[n].state = "loaded"
        /\ calls[c].lib = ScriptEngine(n)

\* C10 as stated: in addition, the engine of a simplified call comes only
\* from the single pinned script.
C10_OnlyPinnedScript ==
    /\ C10_SimpleMode
    /\ \A c \in Calls :
          (calls[c].mode = "simple" /\ calls[c].lib # "none") =>
              C10_FromPinnedScript(c)

\* The stage operations that follow getDocument.
C11_LaterOps ==
    {"getPage", "getViewport", "getContext", "render", "toBlob", "File",
     "createObjectURL"}

\* The failure a call reports for a rejected getDocument: the dedicated
\* message of convertPdfToImage (lines 155-161), the caught rejection of
\* performConversion (lines 375-381).
C11_ParseFailedResult(c) ==
    IF calls[c].mode = "resilient"
    THEN [imageUrl |-> "", file |-> <<>>,
          error |-> <<"Failed to parse PDF file. It may be corrupted or password protected.">>]
    ELSE [imageUrl |-> "", file |-> <<>>,
          error |-> <<"Conversion error: Error: getDocument failed">>]

C12_EncodeFailedResult(c) ==
    IF calls[c].mode = "resilient"
    THEN [imageUrl |-> "", file |-> <<>>,
          error |-> <<"Failed to create image from canvas">>]
    ELSE [imageUrl |-> "", file |-> <<>>, error |-> <<"Failed to create image">>]

\* C12: when toBlob calls back with null, the call resolves with the
\* encode failure (imageUrl "", file null); no output File has been
\* constructed and no object URL created, in either entry point.
C12_EncodeFailure ==
    \A c \in Calls :
        calls[c].failedAt = "encode" =>
            /\ calls[c].pc = "done"
            /\ calls[c].result = <<C12_EncodeFailedResult(c)>>
            /\ IsFailure(ResultOf(c))
            /\ \A i \in 1..Len(calls[c].ops) :
                   calls[c].ops[i] \notin {"File", "createObjectURL"}
            /\ calls[c].ops[Len(calls[c].ops)] = "toBlob"

\* The encoder has called back with null in a call of each entry point.
C12_Witness ==
    \E c, d \in Calls :
        /\ calls[c].mode = "resilient" /\ calls[c].failedAt = "encode"
        /\ calls[d].mode = "simple" /\ calls[d].failedAt = "encode"

\* The name the rule prescribes, read off the characters: a trailing ".pdf"
\* in any letter case is dropped once, then ".png" is appended.
C13_Expected(name) ==
    (IF C4_HasPdfSuffix(name) THEN SubSeq(name, 1, Len(name) - 4) ELSE name)
        \o <<".", "p", "n", "g">>

\* C13: the produced file is named after the source: one trailing ".pdf"
\* removed case-insensitively if present, and only at the very end, followed
\* by exactly one ".png".
C13_OutputName ==
    \A c \in Calls :
        (HasResult(c) /\ IsSuccess(ResultOf(c))) =>
            ResultOf(c).file[1].name = C13_Expected(calls[c].file.name)

\* "r.PDF" has been converted to "r.png".
C13_Witness ==
    \E c \in Calls :
        /\ HasResult(c) /\ IsSuccess(ResultOf(c))
        /\ calls[c].file.name = <<"r", ".", "P", "D", "F">>
        /\ ResultOf(c).file[1].name = <<"r", ".", "p", "n", "g">>

\* A name with ".pdf" twice at the end has lost only the last one, and a name
\* with ".pdf" before another extension has kept it.
C13_WitnessInner ==
    \E c \in Calls :
        /\ HasResult(c) /\ IsSuccess(ResultOf(c))
        /\ \/ /\ calls[c].file.name = <<"r", ".", "p", "d", "f", ".", "p", "d", "f">>
              /\ ResultOf(c).file[1].name = <<"r", ".", "p", "d", "f", ".", "p", "n", "g">>
           \/ /\ calls[c].file.name = <<"r", ".", "p", "d", "f", ".", "t">>
              /\ ResultOf(c).file[1].name =
                     <<"r", ".", "p", "d", "f", ".", "t", ".", "p", "n", "g">>

\* An acquisition of loadPdfJs is in flight: its promise is pending.
C14_InFlight == loadPromise # <<>> /\ loadPromise[1].state = "pending"

\* Call c calls loadPdfJs in this step.
CallsLoadPdfJs(c) == ~calls[c].calledLoad /\ calls'[c].calledLoad

\* A caller arriving while an acquisition is in flight starts nothing and
\* waits on the one pending promise.
C14_ArrivalJoins ==
    \A c \in Calls :
        (C14_InFlight /\ CallsLoadPdfJs(c)) =>
            /\ importLog' = importLog
            /\ Len(head') = Len(head)
            /\ loadPromise' = loadPromise
            /\ calls'[c].pc = "load"

\* What a caller of loadPdfJs has observed of it.
C14_Observed(c) ==
    IF calls[c].acq = "engine" THEN calls[c].lib ELSE calls[c].acq

C14_SameOutcome ==
    /\ Cardinality({i \in 1..Len(importLog) : importLog[i].state = "pending"})
         + Cardinality({n \in 1..Len(head) :
                           head[n].kind = "fallback" /\ head[n].state = "pending"}) <= 1
    /\ Cardinality({n \in 1..Len(head) : head[n].kind = "fallback"})
         <= Len(importLog)
    /\ \A c, d \in Calls :
           (/\ calls[c].calledLoad /\ calls[c].acq \in {"engine", "failed"}
            /\ calls[d].calledLoad /\ calls[d].acq \in {"engine", "failed"})
               => C14_Observed(c) = C14_Observed(d)

\* C14: callers of loadPdfJs that arrive while an acquisition is in flight
\* get the same pending promise: the acquisition attempts one import and
\* injects at most one fallback script, and all of them observe one outcome.
C14_SingleFlight == [][C14_ArrivalJoins]_vars /\ [](C14_SameOutcome)

\* Two callers wait on one acquisition: the second arrived while it was in
\* flight, and one import has been attempted.
C14_Witness ==
    \E c, d \in Calls :
        /\ c # d
        /\ C14_InFlight
        /\ calls[c].pc = "load" /\ calls[d].pc = "load"
        /\ ImportsBy(c) # {} /\ ImportsBy(d) = {}
        /\ Len(importLog) = 1

\* C15: once loadPdfJs has set the module-level handle, a later call of
\* loadPdfJs returns that engine and runs no strategy: no import, no script
\* injection, no write to the worker source, loadPromise or isLoading.
C15_CachedEngine ==
    [][\A c \in Calls :
          (pdfjsLib # "none" /\ CallsLoadPdfJs(c)) =>
              /\ calls'[c].acq = "engine"
              /\ calls'[c].lib = pdfjsLib
              /\ pdfjsLib' = pdfjsLib
              /\ importLog' = importLog
              /\ Len(head') = Len(head)
              /\ engines' = engines
              /\ loadPromise' = loadPromise
              /\ isLoading' = isLoading]_vars

\* A call that began when the module-level handle was already set has
\* called loadPdfJs and holds that engine, having imported nothing itself.
C15_Witness ==
    \E c \in Calls :
        /\ calls[c].modAtStart
        /\ calls[c].calledLoad
        /\ calls[c].acq = "engine"
        /\ calls[c].lib = pdfjsLib
        /\ ImportsBy(c) = {}
        /\ \A n \in ScriptsBy(c) : head[n].kind = "direct"

C16_FallbackScripts == {n \in 1..Len(head) : head[n].kind = "fallback"}

C16_Imports(st) == {i \in 1..Len(importLog) : importLog[i].state = st}

\* C16: within an acquisition by loadPdfJs the strategies run in order and
\* stop at the first success: the fallback script is injected only after the
\* acquisition's import was attempted and failed, and an acquisition whose
\* import succeeded (or is still pending) has injected no script.
C16_StrategyOrder ==
    /\ \A n \in C16_FallbackScripts :
           /\ head[n].afterImportFail
           /\ \E i \in C16_Imports("failed") : importLog[i].by = head[n].by
    /\ \A i \in C16_Imports("ok") \cup C16_Imports("pending") :
           \A n \in C16_FallbackScripts : head[n].by # importLog[i].by
    /\ Cardinality(C16_FallbackScripts) <= Cardinality(C16_Imports("failed"))

\* An acquisition has succeeded by import: its callers hold the imported
\* module and no fallback script has been injected.
C16_Witness ==
    /\ C16_Imports("ok") # {}
    /\ C16_FallbackScripts = {}
    /\ pdfjsLib = "module"
    /\ \E c \in Calls : calls[c].calledLoad /\ calls[c].lib = "module"

\* An acquisition's import has failed and its fallback script has then been
\* injected and has loaded.
C16_WitnessFallback ==
    /\ C16_Imports("failed") # {}
    /\ \E n \in C16_FallbackScripts :
           head[n].state = "loaded" /\ pdfjsLib = ScriptEngine(n)

\* The engines some call or binding can use.
C17_Available ==
    {id \in DOMAIN engines :
        \/ id = pdfjsLib
        \/ id = winPdfjsLib
        \/ \E c \in Calls : calls[c].lib = id}

\* C17: whenever an engine is available for use, the version in its
\* configured worker script URL is the version of the engine that was
\* loaded, also when the imported module exposes no version and the pinned
\* default is used.
C17_WorkerVersionMatches ==
    \A id \in C17_Available :
        /\ engines[id].workerSrc # <<>>
        /\ UrlVersion(engines[id].workerSrc) = engines[id].version

\* The stage operations of the pipeline, in source order (lines 147-228 and
\* 329-362).
C18_Order ==
    <<"arrayBuffer", "getDocument", "getPage", "getViewport", "getContext",
      "render", "toBlob", "File", "createObjectURL">>

\* The operations call c has invoked are the first operations of the order,
\* each once, and none before the call holds an engine.
C18_InOrder(c) ==
    /\ Len(calls[c].ops) <= Len(C18_Order)
    /\ calls[c].ops = SubSeq(C18_Order, 1, Len(calls[c].ops))
    /\ calls[c].ops # <<>> => calls[c].acq = "engine"

\* A failed stage has ended the call with a failure result, and it is the
\* last operation the call invoked.
C18_FailureEnds(c) ==
    calls[c].failedAt # "none" =>
        /\ calls[c].pc = "done"
        /\ IsFailure(ResultOf(c))
        /\ calls[c].failedAt \in {"validate", "acquire"} => calls[c].ops = <<>>
        /\ calls[c].failedAt \notin {"validate", "acquire", "encode"} =>
               calls[c].ops[Len(calls[c].ops)] = calls[c].failedAt

\* C18: the stages of a call run in order (validate, acquire, arrayBuffer,
\* getDocument, getPage, getViewport, render, toBlob, create result), each at
\* most once and only after the previous one succeeded; a stage failure
\* moves the call to its terminal failed state and no later stage starts.
C18_StageOrder == \A c \in Calls : C18_InOrder(c) /\ C18_FailureEnds(c)

\* The ordering part of C18 alone.
C18_OrderOnly == \A c \in Calls : C18_InOrder(c)

\* After a failed stage the call invokes nothing more.
C18_NoLaterStage ==
    [][\A c \in Calls : calls[c].failedAt # "none" => calls'[c] = calls[c]]_vars

\* C19: at most one engine instance exists: the module-level handle
\* (pdfjsLib) and the global binding (window.pdfjsLib) never hold two
\* different loaded engines at the same time.
C19_HandlesAgree ==
    (pdfjsLib # "none" /\ winPdfjsLib # "none") => pdfjsLib = winPdfjsLib

\* The same for engines that were both loaded from scripts (no module import
\* involved).
C19_HandlesAgreeOnScripts ==
    (pdfjsLib \notin {"none", "module"} /\ winPdfjsLib \notin {"none", "module"})
        => pdfjsLib = winPdfjsLib

\* No more than one engine object has been created.
C19_OneInstance == Cardinality(DOMAIN engines) <= 1

\* C20: the engine's configuration is write-once: after an engine is ready
\* and its worker script URL has been set, no later step of any call writes
\* that engine's worker script URL again.
C20_WriteOnce == \A id \in DOMAIN engines : engines[id].writes <= 1

\* The same for the value alone: a worker script URL, once set, never
\* changes.
C20_WorkerSrcStable ==
    [][\A id \in DOMAIN engines :
          engines[id].workerSrc # <<>> =>
              engines'[id].workerSrc = engines[id].workerSrc]_vars

\* Once some engine is configured, no step configures any engine.
C20_NoLaterWrite ==
    [][(\E id \in DOMAIN engines : engines[id].writes > 0) =>
          /\ DOMAIN engines' = DOMAIN engines
          /\ \A id \in DOMAIN engines : engines'[id].writes = engines[id].writes]_vars

====
